---- MODULE Spec2Model ----
(***************************************************************************)
(* Model of the RFC 6570 URI template codec of this repository:           *)
(*   src/src/UriTemplate.js   (called "v1" below)                          *)
(*   src/unnamed/part_000     (a second version of the same file, "p0":    *)
(*                             parse errors are thrown inside and caught   *)
(*                             by the exported this.parse wrapper)         *)
(*                                                                         *)
(* A JavaScript string is modelled as the sequence of its UTF-16 code      *)
(* units (naturals).  A thrown error is modelled as a result record whose  *)
(* kind is "throw".                                                        *)
(***************************************************************************)
EXTENDS Integers, Sequences, FiniteSets, TLC

(***************************************************************************)
(* Bounds of the model.                                                    *)
(***************************************************************************)
MaxTplLen == 4      \* length of the exhaustively enumerated templates
MaxStrLen == 3      \* length of the exhaustively enumerated candidate strings
MaxValLen == 2      \* length of the exhaustively enumerated variable values

(***************************************************************************)
(* Characters.  Printable lists ASCII 0x20..0x7E in code order, so that    *)
(* Ord("A") = 65; text is written Str(<<"{", "a", "}">>).  Code 0x60 is   *)
(* listed under a name because the lexer does not accept it in a string.  *)
(***************************************************************************)
Printable ==
  << " ", "!", "\"", "#", "$", "%", "&", "'", "(", ")", "*", "+", ",", "-", ".", "/",
     "0", "1", "2", "3", "4", "5", "6", "7", "8", "9", ":", ";", "<", "=", ">", "?",
     "@", "A", "B", "C", "D", "E", "F", "G", "H", "I", "J", "K", "L", "M", "N", "O",
     "P", "Q", "R", "S", "T", "U", "V", "W", "X", "Y", "Z", "[", "\\", "]", "^", "_",
     "GRAVE", "a", "b", "c", "d", "e", "f", "g", "h", "i", "j", "k", "l", "m", "n", "o",
     "p", "q", "r", "s", "t", "u", "v", "w", "x", "y", "z", "{", "|", "}", "~" >>

Ord(c) == 31 + (CHOOSE i \in 1..Len(Printable) : Printable[i] = c)

Str(t) == [i \in 1..Len(t) |-> Ord(t[i])]

Chars(t) == {Ord(t[i]) : i \in 1..Len(t)}

IsDigit(c) == c >= 48 /\ c <= 57
IsUpper(c) == c >= 65 /\ c <= 90
IsLower(c) == c >= 97 /\ c <= 122
IsAlpha(c) == IsUpper(c) \/ IsLower(c)
IsHexDigit(c) == IsDigit(c) \/ (c >= 65 /\ c <= 70) \/ (c >= 97 /\ c <= 102)

HexVal(c) == IF IsDigit(c) THEN c - 48
             ELSE IF c >= 97 THEN c - 87 ELSE c - 55

HexChar(d) == IF d < 10 THEN 48 + d ELSE 55 + d

Min(a, b) == IF a < b THEN a ELSE b
Max(a, b) == IF a > b THEN a ELSE b

(***************************************************************************)
(* Built-in String / Array methods the source calls (0-based indices as    *)
(* in JavaScript).  A value that is used more than once is handed to a     *)
(* helper operator as a parameter, so that it is evaluated once.           *)
(***************************************************************************)
Clamp(x, n) == Min(Max(x, 0), n)

\* String.prototype.substring(a, b): arguments are clamped to [0, length]
\* and swapped when a > b.
substring(s, a, b) ==
  SubSeq(s, Min(Clamp(a, Len(s)), Clamp(b, Len(s))) + 1,
            Max(Clamp(a, Len(s)), Clamp(b, Len(s))))

\* String.prototype.substring(a) / slice(a) with 0 <= a.
substringFrom(s, a) == SubSeq(s, Clamp(a, Len(s)) + 1, Len(s))

\* does pat occur in s at 0-based position k
OccursAt(s, pat, k) ==
  /\ k >= 0
  /\ k + Len(pat) <= Len(s)
  /\ \A j \in 1..Len(pat) : s[k + j] = pat[j]

RECURSIVE indexOfFrom(_, _, _)
indexOfFrom(s, pat, k) ==
  IF k + Len(pat) > Len(s) THEN -1
  ELSE IF OccursAt(s, pat, k) THEN k
  ELSE indexOfFrom(s, pat, k + 1)

\* String.prototype.indexOf(pat, fromIndex)
indexOf(s, pat, from) == indexOfFrom(s, pat, Clamp(from, Len(s)))

\* String.prototype.startsWith(prefix)
startsWith(s, prefix) == OccursAt(s, prefix, 0)

\* String.prototype.split(sep) for a non-empty separator; k is the position
\* of the first separator in s, -1 when there is none
RECURSIVE splitAt(_, _, _)
splitAt(s, sep, k) ==
  IF k = -1 THEN << s >>
  ELSE << SubSeq(s, 1, k) >>
         \o splitAt(SubSeq(s, k + Len(sep) + 1, Len(s)), sep,
                    indexOfFrom(SubSeq(s, k + Len(sep) + 1, Len(s)), sep, 0))

split(s, sep) == splitAt(s, sep, indexOfFrom(s, sep, 0))

\* Array.prototype.join(sep) on an array of strings
RECURSIVE join(_, _)
join(parts, sep) ==
  IF Len(parts) = 0 THEN << >>
  ELSE IF Len(parts) = 1 THEN parts[1]
  ELSE parts[1] \o sep \o join(Tail(parts), sep)

\* Number.prototype.toString(16).toUpperCase() of a natural
RECURSIVE toHex(_)
toHex(n) ==
  IF n < 16 THEN << HexChar(n) >>
  ELSE toHex(n \div 16) \o << HexChar(n % 16) >>

\* Number.prototype.toString() (radix 10) of a natural
RECURSIVE toDecimal(_)
toDecimal(n) ==
  IF n < 10 THEN << 48 + n >>
  ELSE toDecimal(n \div 10) \o << 48 + (n % 10) >>

\* parseInt(s, 10) of a string of decimal digits
RECURSIVE parseInt(_)
parseInt(s) ==
  IF Len(s) = 0 THEN 0
  ELSE 10 * parseInt(SubSeq(s, 1, Len(s) - 1)) + (s[Len(s)] - 48)

(***************************************************************************)
(* Built-in URI functions (ECMAScript Encode / Decode).  Each returns      *)
(* [ok, s]: ok = FALSE models the URIError the built-in throws.            *)
(***************************************************************************)
Pct == Ord("%")

UriError == [ok |-> FALSE, s |-> << >>]

\* "%" followed by exactly two uppercase hexadecimal digits of one octet
pctOctet(b) == << Pct, HexChar(b \div 16), HexChar(b % 16) >>

\* the UTF-8 octets of a code point
utf8Octets(v) ==
  IF v < 128 THEN << v >>
  ELSE IF v < 2048 THEN << 192 + (v \div 64), 128 + (v % 64) >>
  ELSE IF v < 65536
    THEN << 224 + (v \div 4096), 128 + ((v \div 64) % 64), 128 + (v % 64) >>
  ELSE << 240 + (v \div 262144), 128 + ((v \div 4096) % 64),
          128 + ((v \div 64) % 64), 128 + (v % 64) >>

RECURSIVE pctOctets(_)
pctOctets(bs) ==
  IF Len(bs) = 0 THEN << >> ELSE pctOctet(Head(bs)) \o pctOctets(Tail(bs))

IsHighSurrogate(c) == c >= 55296 /\ c <= 56319
IsLowSurrogate(c)  == c >= 56320 /\ c <= 57343

uriMark == Chars(<< "-", "_", ".", "!", "~", "*", "'", "(", ")" >>)
\* uriReserved of ECMAScript and "#": what encodeURI leaves as it is
uriReservedPlusHash == Chars(<< ";", "/", "?", ":", "@", "&", "=", "+", "$", ",", "#" >>)
uriUnescaped(c) == IsAlpha(c) \/ IsDigit(c) \/ c \in uriMark

\* ECMAScript Encode(string, unescapedSet) from the 1-based position k on;
\* acc is the result so far, keep the characters left as they are
RECURSIVE uriEncodeFrom(_, _, _, _)
uriEncodeFrom(s, k, keep, acc) ==
  IF k > Len(s) THEN [ok |-> TRUE, s |-> acc]
  ELSE IF uriUnescaped(s[k]) \/ s[k] \in keep
  THEN uriEncodeFrom(s, k + 1, keep, Append(acc, s[k]))
  ELSE IF IsLowSurrogate(s[k]) THEN UriError
  ELSE IF ~IsHighSurrogate(s[k])
  THEN uriEncodeFrom(s, k + 1, keep, acc \o pctOctets(utf8Octets(s[k])))
  ELSE IF k + 1 > Len(s) \/ ~IsLowSurrogate(s[k + 1]) THEN UriError
  ELSE uriEncodeFrom(s, k + 2, keep,
         acc \o pctOctets(utf8Octets(
                  (s[k] - 55296) * 1024 + (s[k + 1] - 56320) + 65536)))

encodeURIComponent(s) == uriEncodeFrom(s, 1, {}, << >>)

encodeURI(s) == uriEncodeFrom(s, 1, uriReservedPlusHash, << >>)

\* is s[k..k+2] (1-based) a "%" and two hexadecimal digits
IsEscapeAt(s, k) ==
  /\ k + 2 <= Len(s)
  /\ s[k] = Pct
  /\ IsHexDigit(s[k + 1])
  /\ IsHexDigit(s[k + 2])

OctetAt(s, k) == 16 * HexVal(s[k + 1]) + HexVal(s[k + 2])

\* number of octets of the UTF-8 sequence a lead octet opens (0: not a lead)
utf8Length(b) ==
  IF b < 128 THEN 1
  ELSE IF b >= 192 /\ b < 224 THEN 2
  ELSE IF b >= 224 /\ b < 240 THEN 3
  ELSE IF b >= 240 /\ b < 248 THEN 4
  ELSE 0

\* is the escape at k a UTF-8 continuation octet
IsContinuationAt(s, k) ==
  IsEscapeAt(s, k) /\ OctetAt(s, k) >= 128 /\ OctetAt(s, k) < 192

\* the six payload bits of the j-th continuation octet after the lead at k
Payload(s, k, j) == OctetAt(s, k + 3 * j) % 64

\* the value n octets starting at k encode, before it is validated
utf8Value(s, k, n) ==
  IF n = 2 THEN (OctetAt(s, k) % 32) * 64 + Payload(s, k, 1)
  ELSE IF n = 3
  THEN (OctetAt(s, k) % 16) * 4096 + Payload(s, k, 1) * 64 + Payload(s, k, 2)
  ELSE (OctetAt(s, k) % 8) * 262144 + Payload(s, k, 1) * 4096
         + Payload(s, k, 2) * 64 + Payload(s, k, 3)

\* v when it is a code point that n octets encode, else -1 (overlong forms,
\* surrogates and values above U+10FFFF are no UTF-8)
utf8Valid(n, v) ==
  IF v < (IF n = 2 THEN 128 ELSE IF n = 3 THEN 2048 ELSE 65536)
       \/ v > 1114111 \/ (v >= 55296 /\ v <= 57343)
  THEN -1 ELSE v

utf8CodePoint(s, k, n) ==
  IF \E j \in 1..(n - 1) : ~IsContinuationAt(s, k + 3 * j) THEN -1
  ELSE utf8Valid(n, utf8Value(s, k, n))

\* the UTF-16 code units of a code point
utf16Units(v) ==
  IF v < 65536 THEN << v >>
  ELSE << 55296 + ((v - 65536) \div 1024), 56320 + ((v - 65536) % 1024) >>

\* ECMAScript Decode(string, {}) from the 1-based position k on
RECURSIVE uriDecodeFrom(_, _, _)
RECURSIVE uriDecodeOctets(_, _, _, _)
RECURSIVE uriDecodeCodePoint(_, _, _, _, _)
uriDecodeFrom(s, k, acc) ==
  IF k > Len(s) THEN [ok |-> TRUE, s |-> acc]
  ELSE IF s[k] # Pct THEN uriDecodeFrom(s, k + 1, Append(acc, s[k]))
  ELSE IF ~IsEscapeAt(s, k) THEN UriError
  ELSE uriDecodeOctets(s, k, acc, utf8Length(OctetAt(s, k)))

\* the escape at k opens a sequence of n octets
uriDecodeOctets(s, k, acc, n) ==
  IF n = 1 THEN uriDecodeFrom(s, k + 3, Append(acc, OctetAt(s, k)))
  ELSE IF n = 0 \/ k + 3 * n - 1 > Len(s) THEN UriError
  ELSE uriDecodeCodePoint(s, k, acc, n, utf8CodePoint(s, k, n))

uriDecodeCodePoint(s, k, acc, n, v) ==
  IF v = -1 THEN UriError
  ELSE uriDecodeFrom(s, k + 3 * n, acc \o utf16Units(v))

decodeURIComponent(s) == uriDecodeFrom(s, 1, << >>)

(***************************************************************************)
(* JavaScript values handed to stringify.  Every value has the same shape: *)
(*   t      "undefined" | "null" | "str" | "num" | "list" | "map" | "entry" *)
(*   s      the text of a "str", the key of an "entry"                     *)
(*   n      the number of a "num"                                          *)
(*   items  the elements of a "list", the entries of a "map" (in           *)
(*          Object.keys order), the one value of an "entry"                *)
(***************************************************************************)
JsUndefined == [t |-> "undefined", s |-> << >>, n |-> 0, items |-> << >>]
JsNull      == [t |-> "null", s |-> << >>, n |-> 0, items |-> << >>]
JsStr(x)    == [t |-> "str", s |-> x, n |-> 0, items |-> << >>]
JsNum(x)    == [t |-> "num", s |-> << >>, n |-> x, items |-> << >>]
JsList(xs)  == [t |-> "list", s |-> << >>, n |-> 0, items |-> xs]
JsEntry(k, x) == [t |-> "entry", s |-> k, n |-> 0, items |-> << x >>]
JsMap(es)   == [t |-> "map", s |-> << >>, n |-> 0, items |-> es]

\* ToString of a primitive value
JsToString(v) ==
  IF v.t = "str" THEN v.s
  ELSE IF v.t = "num" THEN toDecimal(v.n)
  ELSE IF v.t = "null" THEN Str(<< "n", "u", "l", "l" >>)
  ELSE Str(<< "u", "n", "d", "e", "f", "i", "n", "e", "d" >>)

\* data[name] on a plain object: undefined when the property is absent
GetProperty(data, name) ==
  IF name \in DOMAIN data THEN data[name] ELSE JsUndefined

\* data[name] = value on a plain object
SetProperty(data, name, value) ==
  [x \in (DOMAIN data) \cup {name} |-> IF x = name THEN value ELSE data[x]]

EmptyObject == [x \in {} |-> << >>]

(***************************************************************************)
(* src/src/UriTemplate.js, lines 6-127: the operator table, the value      *)
(* classifier, the strict encoder and the grammar validator.  (The same    *)
(* lines of src/unnamed/part_000 are identical.)                           *)
(***************************************************************************)
\* one entry of the table; the prefix and the separator are given as the
\* character they consist of (0: the empty string)
Options(prefix, seperator, assignment, assignEmpty, encodeName) ==
  [prefix |-> IF prefix = 0 THEN << >> ELSE << prefix >>,
   seperator |-> << seperator >>,
   assignment |-> assignment,
   assignEmpty |-> assignEmpty,
   encode |-> encodeName]

operatorOptions(operator) ==
  CASE operator = << >>  -> Options(0, 44, FALSE, FALSE, "percentEncode")
    [] operator = << 43 >> -> Options(0, 44, FALSE, FALSE, "encodeURI")    \* "+"
    [] operator = << 35 >> -> Options(35, 44, FALSE, FALSE, "encodeURI")   \* "#"
    [] operator = << 46 >> -> Options(46, 46, FALSE, FALSE, "percentEncode") \* "."
    [] operator = << 47 >> -> Options(47, 47, FALSE, FALSE, "encodeURIComponent") \* "/"
    [] operator = << 59 >> -> Options(59, 59, TRUE, FALSE, "encodeURIComponent")  \* ";"
    [] operator = << 63 >> -> Options(63, 38, TRUE, TRUE, "encodeURIComponent")   \* "?", "&"
    [] operator = << 38 >> -> Options(38, 38, TRUE, TRUE, "encodeURIComponent")   \* "&"

isUndefined(value) ==
  \/ value.t = "null"
  \/ value.t = "undefined"
  \/ (value.t = "list" /\ Len(value.items) = 0)

isDefined(value) == ~isUndefined(value)

unreserved == Str(<< "-", ".", "_", "~" >>)

percentTransform(ch) ==
  IF ch >= 48 /\ ch <= 57 THEN << ch >>
  ELSE IF ch >= 65 /\ ch <= 90 THEN << ch >>
  ELSE IF ch >= 97 /\ ch <= 122 THEN << ch >>
  ELSE IF indexOf(unreserved, << ch >>, 0) # -1 THEN << ch >>
  ELSE << Pct >> \o toHex(ch)

\* value.split("").map(mapper).join(''), with mapper = percentTransform
RECURSIVE applyStringTransform(_)
applyStringTransform(value) ==
  IF Len(value) = 0 THEN << >>
  ELSE percentTransform(Head(value)) \o applyStringTransform(Tail(value))

percentEncode(value) ==
  IF isUndefined(value) THEN [ok |-> TRUE, s |-> << >>]
  ELSE [ok |-> TRUE, s |-> applyStringTransform(JsToString(value))]

\* options.encode(value): the encoder the operator table names
encode(name, value) ==
  IF name = "percentEncode" THEN percentEncode(value)
  ELSE IF name = "encodeURI" THEN encodeURI(JsToString(value))
  ELSE encodeURIComponent(JsToString(value))

reservedOperators == Chars(<< "=", ",", "!", "@", "|" >>)

\* a variant that lets the reserved "|" through
checkReserved_pipeAllowed(operator) ==
  Len(operator) > 0 /\ operator[1] \in reservedOperators \ {Ord("|")}

\* TRUE when checkReserved(operator) throws
checkReserved(operator) ==
  Len(operator) > 0 /\ operator[1] \in reservedOperators

\* the character classes of the source's regular expressions
BodyPunctuation == Chars(<< "_", ",", ".", ":", "*" >>)
OperatorChars ==
  Chars(<< "+", "#", ".", "/", ";", "?", "&", "=", ",", "!", "@", "|" >>)

IsNameStart(c) == IsAlpha(c) \/ c = 36 \/ c = 95      \* "$", "_"
IsNameChar(c)  == IsNameStart(c) \/ IsDigit(c)

InClass(class, c) ==
  CASE class = "name"   -> IsNameChar(c)
    [] class = "digit"  -> IsDigit(c)
    [] class = "body"   -> IsAlpha(c) \/ IsDigit(c) \/ c \in BodyPunctuation
    [] class = "opchar" -> c \in OperatorChars

\* length of the longest run of characters of the class from the 1-based k
RECURSIVE runLength(_, _, _)
runLength(s, k, class) ==
  IF k > Len(s) \/ ~InClass(class, s[k]) THEN 0 ELSE 1 + runLength(s, k + 1, class)

NoVariableMatch ==
  [matched |-> FALSE, name |-> << >>, maxLength |-> << >>, star |-> FALSE]

\* reVariable after the name (nameLen characters) and the modifier (modLen
\* characters, ":" and 1-4 digits, or none): an optional "*", then the end
reVariableEnd(variable, nameLen, modLen) ==
  IF nameLen + modLen = Len(variable)
  THEN [matched |-> TRUE, name |-> SubSeq(variable, 1, nameLen),
        maxLength |-> SubSeq(variable, nameLen + 1, nameLen + modLen),
        star |-> FALSE]
  ELSE IF nameLen + modLen + 1 = Len(variable) /\ variable[Len(variable)] = 42
  THEN [matched |-> TRUE, name |-> SubSeq(variable, 1, nameLen),
        maxLength |-> SubSeq(variable, nameLen + 1, nameLen + modLen),
        star |-> TRUE]
  ELSE NoVariableMatch

\* reVariable after the name: (?:\:[1-9][0-9]?[0-9]?[0-9]?)? with `digits`
\* the number of digits that follow a ":"
reVariableModifier(variable, nameLen, digits) ==
  IF digits >= 1 /\ digits <= 4 /\ variable[nameLen + 2] # 48
  THEN reVariableEnd(variable, nameLen, 1 + digits)
  ELSE NoVariableMatch

reVariableName(variable, nameLen) ==
  IF nameLen = 0 THEN NoVariableMatch
  ELSE IF nameLen < Len(variable) /\ variable[nameLen + 1] = 58     \* ":"
  THEN reVariableModifier(variable, nameLen,
                          runLength(variable, nameLen + 2, "digit"))
  ELSE reVariableEnd(variable, nameLen, 0)

\* reVariable.exec(variable): [matched, name (match[1]), maxLength
\* (match[2]), star (match[3] is "*")]
reVariable(variable) ==
  IF Len(variable) > 0 /\ IsNameStart(variable[1])
  THEN reVariableName(variable, runLength(variable, 1, "name"))
  ELSE NoVariableMatch

\* the object variableMapper builds from a match
variableOf(match) ==
  IF ~match.matched
  THEN [ok |-> FALSE, name |-> << >>, maxLength |-> 0, composite |-> FALSE]
  ELSE [ok |-> TRUE,
        name |-> match.name,
        maxLength |-> IF Len(match.maxLength) = 0 THEN 0
                      ELSE parseInt(Tail(match.maxLength)),
        composite |-> match.star]

\* variableMapper(variable): ok = FALSE models the TypeError of match[1] on a
\* null match; maxLength 0 stands for the falsy "" of an absent modifier
variableMapper(variable) == variableOf(reVariable(variable))

(***************************************************************************)
(* src/src/UriTemplate.js, lines 139-160: the template compiler.           *)
(***************************************************************************)
NoTemplateMatch ==
  [found |-> FALSE, index |-> 0, operator |-> << >>, body |-> << >>, length |-> 0]

\* reTemplate at the 0-based i with no operator: the body is the run of
\* bodyLen characters after "{", and "}" must follow it
reTemplateBody(template, i, bodyLen) ==
  IF bodyLen >= 1 /\ i + 2 + bodyLen <= Len(template)
       /\ template[i + 2 + bodyLen] = 125
  THEN [found |-> TRUE, index |-> i, operator |-> << >>,
        body |-> SubSeq(template, i + 2, i + 1 + bodyLen), length |-> bodyLen + 2]
  ELSE NoTemplateMatch

\* reTemplate at the 0-based i with the operator character taken (the
\* optional operator is greedy); when the rest does not match, the pattern
\* is tried again without an operator
reTemplateOperator(template, i, bodyLen) ==
  IF bodyLen >= 1 /\ i + 3 + bodyLen <= Len(template)
       /\ template[i + 3 + bodyLen] = 125
  THEN [found |-> TRUE, index |-> i, operator |-> << template[i + 2] >>,
        body |-> SubSeq(template, i + 3, i + 2 + bodyLen), length |-> bodyLen + 3]
  ELSE reTemplateBody(template, i, runLength(template, i + 2, "body"))

\* reTemplate tried at the 0-based position i: "{" operator? body+? "}"
reTemplateAt(template, i) ==
  IF i + 1 > Len(template) \/ template[i + 1] # 123 THEN NoTemplateMatch
  ELSE IF i + 2 <= Len(template) /\ InClass("opchar", template[i + 2])
  THEN reTemplateOperator(template, i, runLength(template, i + 3, "body"))
  ELSE reTemplateBody(template, i, runLength(template, i + 2, "body"))

\* reTemplate.exec(template) with lastIndex: the leftmost match at or after it
RECURSIVE reTemplateExec(_, _)
RECURSIVE reTemplateNext(_, _, _)
reTemplateExec(template, lastIndex) ==
  IF lastIndex >= Len(template) THEN NoTemplateMatch
  ELSE reTemplateNext(template, lastIndex, reTemplateAt(template, lastIndex))

reTemplateNext(template, lastIndex, m) ==
  IF m.found THEN m ELSE reTemplateExec(template, lastIndex + 1)

\* tokens.map(variableMapper)
mapTokens(tokens) == [k \in 1..Len(tokens) |-> variableMapper(tokens[k])]

\* match[2].split(',').map(variableMapper)
mapVariables(body) == mapTokens(split(body, << 44 >>))

CompileThrow(e) == [kind |-> "throw", err |-> e, pieces |-> << >>, glues |-> << >>]

\* the piece pushed for an expression
pieceOf(operator, mapped) ==
  [operator |-> operator,
   variables |-> [k \in 1..Len(mapped) |->
                    [name |-> mapped[k].name, maxLength |-> mapped[k].maxLength,
                     composite |-> mapped[k].composite]]]

\* the while loop of preprocessTemplate, from `offset` on
RECURSIVE preprocessFrom(_, _, _, _)
RECURSIVE preprocessMatch(_, _, _, _, _)
RECURSIVE preprocessPiece(_, _, _, _, _)
preprocessFrom(template, offset, pieces, glues) ==
  preprocessMatch(template, offset, pieces, glues, reTemplateExec(template, offset))

\* a variant that cuts every glue from the start of the template
preprocessMatch_prefixFromStart(template, offset, pieces, glues, match) ==
  IF ~match.found
  THEN [kind |-> "ok", err |-> "none", pieces |-> pieces,
        glues |-> Append(glues, substringFrom(template, offset))]
  ELSE IF checkReserved(match.operator) THEN CompileThrow("Error")
  ELSE preprocessPiece(template, pieces,
                       Append(glues, substring(template, 0, match.index)),
                       match, mapVariables(match.body))

\* one iteration: glues.push(prefix), checkReserved, variableMapper
preprocessMatch(template, offset, pieces, glues, match) ==
  IF ~match.found
  THEN [kind |-> "ok", err |-> "none", pieces |-> pieces,
        glues |-> Append(glues, substringFrom(template, offset))]
  ELSE IF checkReserved(match.operator) THEN CompileThrow("Error")
  ELSE preprocessPiece(template, pieces,
                       Append(glues, substring(template, offset, match.index)),
                       match, mapVariables(match.body))

\* pieces.push({ operator, variables }); offset = match.index + match[0].length
preprocessPiece(template, pieces, glues, match, mapped) ==
  IF \E k \in 1..Len(mapped) : ~mapped[k].ok THEN CompileThrow("TypeError")
  ELSE preprocessFrom(template, match.index + match.length,
                      Append(pieces, pieceOf(match.operator, mapped)), glues)

preprocessTemplate(template) == preprocessFrom(template, 0, << >>, << >>)

(***************************************************************************)
(* src/src/UriTemplate.js, lines 162-235: anchor search and parse (v1).    *)
(***************************************************************************)
\* the for loop of getSegmentsOffsets from the 1-based glue i on
RECURSIVE segmentsOffsetsFrom(_, _, _, _, _)
RECURSIVE segmentsOffsetsAt(_, _, _, _, _)
\* a variant that wants the last glue to end the string
segmentsOffsetsFrom_lastGlueAtEnd(str, glues, i, offset, offsets) ==
  IF i > Len(glues) THEN [ok |-> TRUE, offsets |-> offsets]
  ELSE segmentsOffsetsAt(str, glues, i, offsets,
         IF i > 1 /\ glues[i] = << >> THEN Len(str)
         ELSE IF i < Len(glues) THEN indexOf(str, glues[i], offset)
         ELSE IF Len(str) - Len(glues[i]) >= offset
                   /\ OccursAt(str, glues[i], Len(str) - Len(glues[i]))
         THEN Len(str) - Len(glues[i])
         ELSE -1)

segmentsOffsetsFrom(str, glues, i, offset, offsets) ==
  IF i > Len(glues) THEN [ok |-> TRUE, offsets |-> offsets]
  ELSE segmentsOffsetsAt(str, glues, i, offsets,
         IF i > 1 /\ glues[i] = << >> THEN Len(str)
         ELSE indexOf(str, glues[i], offset))

\* offsets.push(index); offset = index + glue.length
segmentsOffsetsAt(str, glues, i, offsets, index) ==
  IF index = -1 THEN [ok |-> FALSE, offsets |-> << >>]
  ELSE segmentsOffsetsFrom(str, glues, i + 1, index + Len(glues[i]),
                           Append(offsets, index))

\* ok = FALSE models `return false`
getSegmentsOffsets(str, glues) == segmentsOffsetsFrom(str, glues, 1, 0, << >>)

\* the outcome of a callback of every(): status "ok" | "false" | "throw"
Step(status, data) == [status |-> status, data |-> data]

\* data[name] = value, with value the result of decodeURIComponent
storeDecoded(name, decoded, data) ==
  IF decoded.ok THEN Step("ok", SetProperty(data, name, decoded.s))
  ELSE Step("throw", data)

\* lines 224-227: value = decodeURIComponent(value); data[name] = value
decodeInto(name, value, data) ==
  storeDecoded(name, decodeURIComponent(value), data)

\* a variant without the assignEmpty test of line 218
parseAfterName_acceptsEmpty(options, name, value, data) ==
  IF Len(value) > 0
  THEN IF value[1] # 61 THEN Step("false", data)
       ELSE decodeInto(name, substringFrom(value, 1), data)
  ELSE decodeInto(name, value, data)

\* lines 218-222, with value the segment after the name
parseAfterName(options, name, value, data) ==
  IF Len(value) = 0 /\ options.assignEmpty THEN Step("false", data)
  ELSE IF Len(value) > 0
  THEN IF value[1] # 61 THEN Step("false", data)                    \* "="
       ELSE decodeInto(name, substringFrom(value, 1), data)
  ELSE decodeInto(name, value, data)

\* the callback of piece.variables.every (lines 207-228) for a segment that
\* exists
parseVariable(options, variable, segment, data) ==
  IF ~options.assignment THEN decodeInto(variable.name, segment, data)
  ELSE IF substring(segment, 0, Len(variable.name)) # variable.name
  THEN Step("false", data)
  ELSE parseAfterName(options, variable.name,
                      substringFrom(segment, Len(variable.name)), data)

\* piece.variables.every(...) from the 1-based variable k on
RECURSIVE parseVariables(_, _, _, _, _)
RECURSIVE parseVariablesNext(_, _, _, _, _)
parseVariables(options, variables, values, k, data) ==
  IF k > Len(variables) THEN Step("ok", data)
  ELSE IF k > Len(values)
  THEN parseVariables(options, variables, values, k + 1, data)
  ELSE parseVariablesNext(options, variables, values, k,
                          parseVariable(options, variables[k], values[k], data))

parseVariablesNext(options, variables, values, k, r) ==
  IF r.status # "ok" THEN r
  ELSE parseVariables(options, variables, values, k + 1, r.data)

\* lines 202-228, with value the text between the two glues of the piece
parseValue(options, piece, value, data) ==
  IF Len(value) = 0 THEN Step("ok", data)
  ELSE IF substring(value, 0, Len(options.prefix)) # options.prefix
  THEN Step("false", data)
  ELSE parseVariables(options, piece.variables,
         split(substringFrom(value, Len(options.prefix)), options.seperator),
         1, data)

\* the callback of pieces.every (lines 195-232) for the 1-based piece i
parsePiece(str, piece, i, glues, offsets, data) ==
  parseValue(operatorOptions(piece.operator), piece,
             substring(str, offsets[i] + Len(glues[i]), offsets[i + 1]), data)

RECURSIVE parsePieces(_, _, _, _, _, _)
RECURSIVE parsePiecesNext(_, _, _, _, _, _)
parsePieces(str, pieces, i, glues, offsets, data) ==
  IF i > Len(pieces) THEN Step("ok", data)
  ELSE parsePiecesNext(str, pieces, i, glues, offsets,
                       parsePiece(str, pieces[i], i, glues, offsets, data))

parsePiecesNext(str, pieces, i, glues, offsets, r) ==
  IF r.status # "ok" THEN r
  ELSE parsePieces(str, pieces, i + 1, glues, offsets, r.data)

\* the result of a call: kind "map" | "false" | "string" | "throw"
MapResult(data)  == [kind |-> "map", s |-> << >>, data |-> data, err |-> "none"]
FalseResult      == [kind |-> "false", s |-> << >>, data |-> EmptyObject, err |-> "none"]
StringResult(x)  == [kind |-> "string", s |-> x, data |-> EmptyObject, err |-> "none"]
ThrowResult(e)   == [kind |-> "throw", s |-> << >>, data |-> EmptyObject, err |-> e]

\* what parse returns after pieces.every: the only thing thrown inside is
\* the URIError of decodeURIComponent
parseOutcome(r) ==
  IF r.status = "ok" THEN MapResult(r.data)
  ELSE IF r.status = "false" THEN FalseResult
  ELSE ThrowResult("URIError")

parseWithOffsets(str, pieces, glues, offsets) ==
  IF ~offsets.ok THEN FalseResult
  ELSE parseOutcome(parsePieces(str, pieces, 1, glues, offsets.offsets, EmptyObject))

\* parse(str) of src/src/UriTemplate.js, exported as this.parse (line 339)
parse(str, pieces, glues) ==
  parseWithOffsets(str, pieces, glues, getSegmentsOffsets(str, glues))

(***************************************************************************)
(* src/unnamed/part_000, lines 162-234 and 336-342: the second version of  *)
(* parse (p0).  Failures are thrown inside and caught by this.parse.       *)
(***************************************************************************)
\* thrown = TRUE models `throw new Error(null)` (line 174)
offsetsOrThrow(r) == [thrown |-> ~r.ok, offsets |-> r.offsets]

getSegmentsOffsets_p0(str, glues) ==
  offsetsOrThrow(segmentsOffsetsFrom(str, glues, 1, 0, << >>))

getValuePart(str, i, glues, offsets) ==
  substring(str, offsets[i] + Len(glues[i]), offsets[i + 1])

\* thrown = TRUE models `throw new Error(null)` (line 194)
startsWithConsume(string, prefix) ==
  IF ~startsWith(string, prefix) THEN [thrown |-> TRUE, s |-> << >>]
  ELSE [thrown |-> FALSE, s |-> substringFrom(string, Len(prefix))]

\* line 227: data[variable.name] = decodeURIComponent(value), with value
\* the result of the last startsWithConsume
decodeConsumed(name, value, data) ==
  IF value.thrown THEN Step("throw", data)
  ELSE storeDecoded(name, decodeURIComponent(value.s), data)

\* lines 222-225, with value the result of startsWithConsume(value, name)
parseAfterName_p0(options, name, value, data) ==
  IF value.thrown THEN Step("throw", data)
  ELSE IF Len(value.s) = 0 /\ options.assignEmpty THEN Step("throw", data)
  ELSE IF Len(value.s) > 0
  THEN decodeConsumed(name, startsWithConsume(value.s, << 61 >>), data)
  ELSE decodeConsumed(name, value, data)

\* the body of the for-in loop (lines 216-227) for a segment that exists
parseVariable_p0(options, variable, segment, data) ==
  IF ~options.assignment THEN decodeInto(variable.name, segment, data)
  ELSE parseAfterName_p0(options, variable.name,
                         startsWithConsume(segment, variable.name), data)

RECURSIVE parseVariables_p0(_, _, _, _, _)
RECURSIVE parseVariablesNext_p0(_, _, _, _, _)
parseVariables_p0(options, variables, values, k, data) ==
  IF k > Len(variables) \/ k > Len(values) THEN Step("ok", data)
  ELSE parseVariablesNext_p0(options, variables, values, k,
         parseVariable_p0(options, variables[k], values[k], data))

parseVariablesNext_p0(options, variables, values, k, r) ==
  IF r.status # "ok" THEN r
  ELSE parseVariables_p0(options, variables, values, k + 1, r.data)

\* lines 212-228, with rest the result of startsWithConsume(value, prefix)
parseRest_p0(options, piece, rest, data) ==
  IF rest.thrown THEN Step("throw", data)
  ELSE parseVariables_p0(options, piece.variables,
                         split(rest.s, options.seperator), 1, data)

\* lines 209-228, with value the result of getValuePart
parseValue_p0(options, piece, value, data) ==
  IF Len(value) = 0 THEN Step("ok", data)
  ELSE parseRest_p0(options, piece, startsWithConsume(value, options.prefix), data)

\* the callback of pieces.forEach (lines 206-231) for the 1-based piece i
parsePiece_p0(str, piece, i, glues, offsets, data) ==
  parseValue_p0(operatorOptions(piece.operator), piece,
                getValuePart(str, i, glues, offsets), data)

RECURSIVE parsePieces_p0(_, _, _, _, _, _)
RECURSIVE parsePiecesNext_p0(_, _, _, _, _, _)
parsePieces_p0(str, pieces, i, glues, offsets, data) ==
  IF i > Len(pieces) THEN Step("ok", data)
  ELSE parsePiecesNext_p0(str, pieces, i, glues, offsets,
                          parsePiece_p0(str, pieces[i], i, glues, offsets, data))

parsePiecesNext_p0(str, pieces, i, glues, offsets, r) ==
  IF r.status # "ok" THEN r
  ELSE parsePieces_p0(str, pieces, i + 1, glues, offsets, r.data)

parseOutcome_p0(r) ==
  IF r.status = "ok" THEN MapResult(r.data) ELSE ThrowResult("Error")

parseWithOffsets_p0(str, pieces, glues, offsets) ==
  IF offsets.thrown THEN ThrowResult("Error")
  ELSE parseOutcome_p0(
         parsePieces_p0(str, pieces, 1, glues, offsets.offsets, EmptyObject))

\* the inner parse(str) of part_000 (lines 202-234): a map or a throw
parse_p0(str, pieces, glues) ==
  parseWithOffsets_p0(str, pieces, glues, getSegmentsOffsets_p0(str, glues))

\* try { return parse.apply(this, arguments) } catch (error) { return false }
catchFalse(r) == IF r.kind = "throw" THEN FalseResult ELSE r

\* this.parse of part_000 (lines 336-342)
this_parse_p0(str, pieces, glues) == catchFalse(parse_p0(str, pieces, glues))

(***************************************************************************)
(* src/src/UriTemplate.js, lines 238-336: stringify.  (part_000 lines      *)
(* 237-333 differ only in how the loop over the pieces is written.)        *)
(***************************************************************************)
\* a rendering: kind "str" | "null" | "throw" (err: the error thrown)
Rendered(x)   == [kind |-> "str", s |-> x, err |-> "none"]
RenderedNull  == [kind |-> "null", s |-> << >>, err |-> "none"]
RenderThrow(e) == [kind |-> "throw", s |-> << >>, err |-> e]

\* the strings of a sequence of renderings
renderedStrings(rs) == [k \in 1..Len(rs) |-> rs[k].s]

\* the first throw of a sequence of renderings (map() stops there), or the
\* renderings joined
joinRendered(rs, sep) ==
  IF \E k \in 1..Len(rs) : rs[k].kind = "throw"
  THEN rs[CHOOSE k \in 1..Len(rs) :
            /\ rs[k].kind = "throw"
            /\ \A j \in 1..(k - 1) : rs[j].kind # "throw"]
  ELSE Rendered(join(renderedStrings(rs), sep))

\* the rendering of what options.encode returned
renderEncoded(e) == IF e.ok THEN Rendered(e.s) ELSE RenderThrow("URIError")

\* `if (variable.maxLength) value = value.substring(0, variable.maxLength)`
\* followed by options.encode(value): substring exists on strings only
truncateEncode(options, variable, value) ==
  IF variable.maxLength = 0 THEN renderEncoded(encode(options.encode, value))
  ELSE IF value.t # "str" THEN RenderThrow("TypeError")
  ELSE renderEncoded(encode(options.encode,
                            JsStr(substring(value.s, 0, variable.maxLength))))

\* `if (x) x = name + '=' + x; else { x = name; if (assignEmpty) x += '=' }`
assign(options, name, r) ==
  IF r.kind # "str" THEN r
  ELSE IF Len(r.s) > 0 THEN Rendered(name \o << 61 >> \o r.s)
  ELSE IF options.assignEmpty THEN Rendered(name \o << 61 >>)
  ELSE Rendered(name)

\* key + ',' + options.encode(keyValue)
pair(key, r) ==
  IF r.kind # "str" THEN r ELSE Rendered(key \o << 44 >> \o r.s)

\* Object.keys(value) with value[key], of a map or of a nested array
objectEntries(value) ==
  IF value.t = "map" THEN value.items
  ELSE [k \in 1..Len(value.items) |-> JsEntry(toDecimal(k - 1), value.items[k])]

\* typeof value === 'object', for a value that is not null
IsObject(value) == value.t \in {"map", "list"}

\* lines 262-275: the entries of an object element of an exploded variable
compositeEntries(options, variable, es) ==
  joinRendered(
    [k \in 1..Len(es) |->
       assign(options, es[k].s, truncateEncode(options, variable, es[k].items[1]))],
    options.seperator)

\* lines 278-288: a scalar element of an exploded variable
compositeScalar(options, variable, r) ==
  IF options.assignment THEN assign(options, variable.name, r) ELSE r

\* lines 258-292: one element of an exploded (composite) variable
renderComposite(options, variable, value) ==
  IF IsObject(value) THEN compositeEntries(options, variable, objectEntries(value))
  ELSE compositeScalar(options, variable, truncateEncode(options, variable, value))

\* lines 298-302: the entries of an object element, not exploded
plainEntries(options, variable, es) ==
  joinRendered(
    [k \in 1..Len(es) |->
       pair(es[k].s, truncateEncode(options, variable, es[k].items[1]))],
    << 44 >>)

\* lines 296-309: one element of a variable that is not exploded
renderPlain(options, variable, value) ==
  IF IsObject(value) THEN plainEntries(options, variable, objectEntries(value))
  ELSE truncateEncode(options, variable, value)

\* value.filter(isDefined)
RECURSIVE filterDefined(_)
filterDefined(xs) ==
  IF Len(xs) = 0 THEN << >>
  ELSE IF isDefined(Head(xs)) THEN << Head(xs) >> \o filterDefined(Tail(xs))
  ELSE filterDefined(Tail(xs))

\* lines 310-318: value.join(','), then the assignment form
plainJoined(options, variable, joined) ==
  IF options.assignment THEN assign(options, variable.name, joined) ELSE joined

\* lines 255-322, with value the filtered array
stringifyValue(options, variable, value) ==
  IF Len(value) = 0 THEN RenderedNull
  ELSE IF variable.composite
  THEN joinRendered([k \in 1..Len(value) |->
                       renderComposite(options, variable, value[k])],
                    options.seperator)
  ELSE plainJoined(options, variable,
         joinRendered([k \in 1..Len(value) |->
                         renderPlain(options, variable, value[k])],
                      << 44 >>))

\* lines 249-253: `if (!Array.isArray(value)) value = [value]`
asArray(raw) == IF raw.t = "list" THEN raw.items ELSE << raw >>

\* the callback of piece.variables.map (lines 248-323)
stringifyVariable(options, variable, data) ==
  stringifyValue(options, variable,
                 filterDefined(asArray(GetProperty(data, variable.name))))

\* parts.filter(isDefined) on the renderings of one piece; a throw is kept
RECURSIVE filterParts(_)
filterParts(rs) ==
  IF Len(rs) = 0 THEN << >>
  ELSE IF Head(rs).kind # "null" THEN << Head(rs) >> \o filterParts(Tail(rs))
  ELSE filterParts(Tail(rs))

\* lines 326-331: what the piece appends to str, with joined the parts
\* joined by the separator
pieceOutput(options, glue, n, joined) ==
  IF joined.kind = "throw" THEN joined
  ELSE IF n > 0 THEN Rendered(options.prefix \o joined.s \o glue)
  ELSE Rendered(glue)

pieceParts(options, glue, kept) ==
  pieceOutput(options, glue, Len(kept), joinRendered(kept, options.seperator))

stringifyParts(options, piece, glue, data) ==
  pieceParts(options, glue,
    filterParts([k \in 1..Len(piece.variables) |->
                   stringifyVariable(options, piece.variables[k], data)]))

\* the callback of pieces.every (lines 243-333) for the 1-based piece i
stringifyPiece(piece, i, glues, data) ==
  stringifyParts(operatorOptions(piece.operator), piece, glues[i + 1], data)

stringifyOutcome(glue0, all) ==
  IF all.kind = "throw" THEN ThrowResult(all.err)
  ELSE StringResult(glue0 \o all.s)

stringify(data, pieces, glues) ==
  stringifyOutcome(glues[1],
    joinRendered([i \in 1..Len(pieces) |-> stringifyPiece(pieces[i], i, glues, data)],
                 << >>))

(***************************************************************************)
(* The program as a state machine: one UriTemplate object.                 *)
(*   impl      which version of the file runs: "v1" (src/src/              *)
(*             UriTemplate.js) or "p0" (src/unnamed/part_000)              *)
(*   template  the text given to the constructor                           *)
(*   pc        "new" before the constructor ran, "failed" when it threw,   *)
(*             "ready" between calls, "returned" after a call              *)
(*   pieces, glues   the constants the constructor's closure holds         *)
(*   call      the last call: op, its argument (str or data), and whether  *)
(*             a parse was given the string the previous stringify made    *)
(*   offsets   the local `offsets` of the last parse call                  *)
(*   result    what the last call returned or threw                        *)
(***************************************************************************)
VARIABLES impl, template, pc, pieces, glues, call, offsets, result

vars == << impl, template, pc, pieces, glues, call, offsets, result >>

NoCall == [op |-> "none", str |-> << >>, data |-> EmptyObject, back |-> FALSE]
NoOffsets == [ok |-> FALSE, offsets |-> << >>]
NoResult == [kind |-> "none", s |-> << >>, data |-> EmptyObject, err |-> "none"]

\* the names of the variables of the compiled pieces, in order
RECURSIVE pieceNames(_)
pieceNames(ps) ==
  IF Len(ps) = 0 THEN << >>
  ELSE [k \in 1..Len(Head(ps).variables) |-> Head(ps).variables[k].name]
         \o pieceNames(Tail(ps))

\* all strings over an alphabet of at most the given length
Extended(shorter, alphabet) ==
  shorter \cup {Append(x, c) : x \in shorter, c \in alphabet}

RECURSIVE StringsUpTo(_, _)
StringsUpTo(alphabet, n) ==
  IF n = 0 THEN {<< >>} ELSE Extended(StringsUpTo(alphabet, n - 1), alphabet)

\* new UriTemplate(template)  (v1 lines 185-186, p0 lines 199-200)
Constructed(c) ==
  /\ pc' = IF c.kind = "ok" THEN "ready" ELSE "failed"
  /\ pieces' = c.pieces
  /\ glues' = c.glues
  /\ result' = IF c.kind = "ok" THEN NoResult ELSE ThrowResult(c.err)

Construct ==
  /\ pc = "new"
  /\ Constructed(preprocessTemplate(template))
  /\ UNCHANGED << impl, template, call, offsets >>

\* a variant that consumes the glues it appends, as glues.shift() would
Stringify_shiftsGlues(data) ==
  /\ pc = "ready"
  /\ call' = [op |-> "stringify", str |-> << >>, data |-> data, back |-> FALSE]
  /\ result' = stringify(data, pieces, glues)
  /\ pc' = "returned"
  /\ glues' = << >>
  /\ UNCHANGED << impl, template, pieces, offsets >>

\* template.stringify(data)
Stringify(data) ==
  /\ pc = "ready"
  /\ call' = [op |-> "stringify", str |-> << >>, data |-> data, back |-> FALSE]
  /\ result' = stringify(data, pieces, glues)
  /\ pc' = "returned"
  /\ UNCHANGED << impl, template, pieces, glues, offsets >>

\* this.parse(str) of the version that runs
parseOf(version, str, ps, gs) ==
  IF version = "v1" THEN parse(str, ps, gs) ELSE this_parse_p0(str, ps, gs)

\* the local `offsets` of parse in the version that runs
offsetsLocal(r) == [ok |-> ~r.thrown, offsets |-> r.offsets]

offsetsOf(version, str, gs) ==
  IF version = "v1" THEN getSegmentsOffsets(str, gs)
  ELSE offsetsLocal(getSegmentsOffsets_p0(str, gs))

\* template.parse(str)
Parse(str) ==
  /\ pc = "ready"
  /\ call' = [op |-> "parse", str |-> str, data |-> EmptyObject, back |-> FALSE]
  /\ offsets' = offsetsOf(impl, str, glues)
  /\ result' = parseOf(impl, str, pieces, glues)
  /\ pc' = "returned"
  /\ UNCHANGED << impl, template, pieces, glues >>

\* template.parse(template.stringify(data)): the caller hands the string it
\* was just given back to parse; call.data keeps the mapping it came from
ParseBack ==
  /\ pc = "returned"
  /\ call.op = "stringify"
  /\ result.kind = "string"
  /\ call' = [op |-> "parse", str |-> result.s, data |-> call.data, back |-> TRUE]
  /\ offsets' = offsetsOf(impl, result.s, glues)
  /\ result' = parseOf(impl, result.s, pieces, glues)
  /\ UNCHANGED << impl, template, pc, pieces, glues >>

\* the caller drops the result; the object is ready for the next call
Return ==
  /\ pc = "returned"
  /\ pc' = "ready"
  /\ call' = NoCall
  /\ offsets' = NoOffsets
  /\ result' = NoResult
  /\ UNCHANGED << impl, template, pieces, glues >>

\* percentEncode(value) called on a string (v1 lines 100-105)
PercentEncode(value) ==
  /\ call.op = "none"
  /\ call' = [op |-> "percentEncode", str |-> value, data |-> EmptyObject,
              back |-> FALSE]
  /\ result' = StringResult(percentEncode(JsStr(value)).s)
  /\ UNCHANGED << impl, template, pc, pieces, glues, offsets >>

(***************************************************************************)
(* The inputs the model draws.                                             *)
(***************************************************************************)
NameA == Str(<< "a" >>)
NameB == Str(<< "b" >>)

\* templates of the codec specification
CodecTemplates ==
  { Str(<< "/", "u", "/", "{", "a", "}" >>),
    Str(<< "{", "?", "a", ",", "b", "}" >>),
    Str(<< "{", ";", "a", ",", "b", "}" >>),
    Str(<< "{", "&", "a", "}" >>),
    Str(<< "{", "a", "}", "{", "b", "}" >>),
    Str(<< "{", "a", "}", "{", "b", "}", "/" >>),
    Str(<< "{", "a", "}", "/", "{", "b", "}" >>),
    Str(<< "{", ".", "a", ",", "b", "}" >>),
    Str(<< "{", "/", "a", "}", "/", "x" >>),
    Str(<< "{", "a", ",", "b", "}" >>),
    Str(<< "{", "a", ":", "1", "}" >>),
    Str(<< "{", "/", "a", "*", "}" >>),
    Str(<< "{", ";", "a", ":", "1", "*", "}" >>),
    Str(<< "x", "{", "?", "a", "*", "}" >>),
    Str(<< "{", "+", "a", "}" >>),
    Str(<< "{", "#", "a", "}" >>),
    Str(<< "x" >>) }

\* characters of the values: "x", "A", "!", " ", ",", "/", LF, U+00E9, U+20AC
ValueAlphabet == Chars(<< "x", "!", " ", ",", "/" >>) \cup {10, 233, 8364}

ValuesOfA ==
  {JsStr(x) : x \in StringsUpTo(ValueAlphabet, MaxValLen)}
    \cup { JsNum(0), JsNum(12), JsNull, JsUndefined,
           JsList(<< >>),
           JsList(<< JsStr(Str(<< "x" >>)), JsStr(Str(<< "!" >>)) >>),
           JsList(<< JsNull, JsNum(7), JsStr(<< >>) >>),
           JsMap(<< JsEntry(Str(<< "k" >>), JsStr(Str(<< "x", " " >>))),
                    JsEntry(Str(<< "e" >>), JsStr(<< >>)) >>),
           JsMap(<< JsEntry(Str(<< "k" >>), JsNum(3)) >>) }

ValuesOfB == { JsStr(<< >>), JsStr(Str(<< "y" >>)), JsNum(5) }

Absent == [t |-> "absent", s |-> << >>, n |-> 0, items |-> << >>]

\* the object { a: va, b: vb } without the properties that are Absent
MkData(va, vb) ==
  [x \in {n \in {NameA, NameB} : IF n = NameA THEN va # Absent ELSE vb # Absent}
     |-> IF x = NameA THEN va ELSE vb]

DataSpace ==
  {MkData(va, vb) : va \in ValuesOfA \cup {Absent}, vb \in ValuesOfB \cup {Absent}}

\* the characters a candidate string for a compiled template is made of:
\* those of its glues, prefixes, separators and names, and "=", "%", "4"
optionChars(o) ==
  {o.prefix[k] : k \in 1..Len(o.prefix)}
    \cup {o.seperator[k] : k \in 1..Len(o.seperator)}

RECURSIVE pieceChars(_)
pieceChars(ps) ==
  IF Len(ps) = 0 THEN {}
  ELSE optionChars(operatorOptions(Head(ps).operator)) \cup pieceChars(Tail(ps))

RECURSIVE seqChars(_)
seqChars(xs) ==
  IF Len(xs) = 0 THEN {}
  ELSE {Head(xs)[k] : k \in 1..Len(Head(xs))} \cup seqChars(Tail(xs))

CandidateAlphabet(ps, gs) ==
  pieceChars(ps) \cup seqChars(gs) \cup seqChars(pieceNames(ps))
    \cup Chars(<< "=", "%", "4" >>)

\* longer candidate strings tried against every template
LongCandidates ==
  { Str(<< "?", "a", "=", "4", "&", "b" >>),
    Str(<< "?", "a", "=", "4", "&", "b", "=" >>),
    Str(<< "?", "a", "=", "4", "&", "b", "=", "%", "4", "4" >>),
    Str(<< "?", "a", "=", "4", "&", "c", "=", "4" >>),
    Str(<< "?", "a", "=", "4", "&", "b", "4" >>),
    Str(<< ";", "a", ";", "b", "=", "4" >>),
    Str(<< ";", "a", "=", "4", ";", "b" >>),
    Str(<< ";", "a", "=", "%", ";", "b" >>),
    Str(<< ";", "a", "=", "4", ";", "a", "=", "4" >>),
    Str(<< "/", "u", "/", "4", "%", "2", "0", "4" >>),
    Str(<< "/", "u", "/", "%", "E", "2", "%", "8", "2", "%", "A", "C" >>),
    Str(<< "/", "u", "/", "%", "E", "2", "%", "8", "2" >>),
    Str(<< "4", "/", "4", "/", "4" >>),
    Str(<< ".", "4", ".", "4", ".", "4" >>) }

Candidates(ps, gs) ==
  StringsUpTo(CandidateAlphabet(ps, gs), MaxStrLen) \cup LongCandidates

\* templates of the compiler specification: every short text over the
\* alphabet, and longer ones
TemplateAlphabet == Chars(<< "{", "}", "a", "1", "0", ":", ",", "=", "*" >>)

LongTemplates ==
  CodecTemplates \cup
  { Str(<< "{", "1", "a", "b", "c", "}" >>),
    Str(<< "{", "n", "a", "m", "e", ":", "0", "}" >>),
    Str(<< "{", "n", "a", "m", "e", ":", "1", "2", "3", "4", "5", "}" >>),
    Str(<< "{", "n", "a", "m", "e", ":", "1", "2", "3", "4", "}" >>),
    Str(<< "{", "n", "a", "m", "e", ":", "9", "0", "*", "}" >>),
    Str(<< "/", "{", "a", "}", "{", "!", "b", "}" >>),
    Str(<< "/", "{", "a", "}", "{", "@", "b", "}" >>),
    Str(<< "/", "{", "a", "}", "{", "|", "b", "}" >>),
    Str(<< "{", "a", "}", "-", "{", "b", ",", "c", ":", "7", "}", "{", "}" >>),
    Str(<< "{", "a", "-", "b", "}", "{", "$", "a", "}", "{", " ", "a", "}" >>),
    Str(<< "{", ".", "}", "{", "a", "}" >>),
    Str(<< "{", "a", ".", "b", "}" >>),
    Str(<< "{", "{", "a", "}", "}", "{", "?", "_", "A", "9", "*", "}" >>),
    Str(<< "{", "#", "a", "}", "{", "+", "b", "}", "{", "&", "c", "}", "z" >>) }

TemplateSpace == StringsUpTo(TemplateAlphabet, MaxTplLen) \cup LongTemplates

\* strings handed to percentEncode directly
EncodeAlphabet ==
  Chars(<< "%", "-", ".", "_", "~", "0", "9", "A", "Z", "a", "z", "!", " ", "/" >>)
    \cup {0, 10, 15, 16, 127, 128, 233, 255, 256, 8364}

(***************************************************************************)
(* Specifications.                                                         *)
(***************************************************************************)
InitWith(templates, versions) ==
  /\ impl \in versions
  /\ template \in templates
  /\ pc = "new"
  /\ pieces = << >>
  /\ glues = << >>
  /\ call = NoCall
  /\ offsets = NoOffsets
  /\ result = NoResult

\* the codec: construct one template, then call stringify and parse on it
Init == InitWith(CodecTemplates, {"v1", "p0"})

Next ==
  \/ Construct
  \/ pc = "ready" /\ \E data \in DataSpace : Stringify(data)
  \/ pc = "ready" /\ \E str \in Candidates(pieces, glues) : Parse(str)
  \/ ParseBack
  \/ Return

Spec == Init /\ [][Next]_vars

\* the compiler alone, over every short template text
InitCompile == InitWith(TemplateSpace, {"v1"})

NextCompile == Construct

SpecCompile == InitCompile /\ [][NextCompile]_vars

\* the strict encoder alone
InitEncode == InitWith({<< >>}, {"v1"})

NextEncode == \E value \in StringsUpTo(EncodeAlphabet, MaxValLen) : PercentEncode(value)

SpecEncode == InitEncode /\ [][NextEncode]_vars

\* parse alone, on templates with text after the last expression (and two
\* without), with candidates that continue past the last glue
SuffixTemplates ==
  { Str(<< "{", "a", "}", "/" >>),
    Str(<< "{", "/", "a", "}", "/", "x" >>),
    Str(<< "x", "{", "?", "a", ",", "b", "}", "#" >>),
    Str(<< "{", "a", "}", "-", "{", "b", "}", "." >>),
    Str(<< "/", "{", ";", "a", "}", "/" >>),
    Str(<< "x" >>),
    Str(<< "{", "a", "}" >>),
    Str(<< "{", "a", "}", "{", "b", "}", "/" >>) }

SuffixCandidates ==
  { Str(<< "x", "?", "a", "=", "4", "&", "b", "=", "4", "#" >>),
    Str(<< "x", "?", "a", "=", "4", "&", "b", "=", "4", "#", "x", "?", "a" >>),
    Str(<< "x", "?", "a", "=", "4", "#", "&", "b", "#" >>),
    Str(<< "x", "?", "a", "#", "#" >>),
    Str(<< "4", "-", "4", "." >>),
    Str(<< "4", "-", "4", ".", "4", "-", "4", "." >>),
    Str(<< "4", "-", "%", ".", "4" >>),
    Str(<< "/", ";", "a", "=", "4", "/" >>),
    Str(<< "/", ";", "a", "=", "4", "/", "/", ";", "a" >>),
    Str(<< "/", ";", "a", "/", "/" >>),
    Str(<< "/", "4", "/", "x", "/", "4", "/", "x" >>),
    Str(<< "4", "/", "4", "/" >>) }

InitSuffix == InitWith(SuffixTemplates, {"v1", "p0"})

NextSuffix ==
  \/ Construct
  \/ pc = "ready" /\ \E str \in Candidates(pieces, glues) \cup SuffixCandidates : Parse(str)
  \/ Return

SpecSuffix == InitSuffix /\ [][NextSuffix]_vars

(***************************************************************************)
(* Vocabulary of the claims.                                               *)
(***************************************************************************)
\* the set of the elements of a sequence
Range(xs) == {xs[k] : k \in 1..Len(xs)}

\* the variables of the compiled template, in order
TemplateVariables ==
  [k \in 1..Len(pieceNames(pieces)) |-> pieceNames(pieces)[k]]

\* the operators "", ".", "/", ";", "?", "&" (strict encoding, not lossy)
StrictOperators == {<< >>, << 46 >>, << 47 >>, << 59 >>, << 63 >>, << 38 >>}

\* every expression uses a strict operator and no variable has a modifier
PlainStrictTemplate ==
  \A i \in 1..Len(pieces) :
    /\ pieces[i].operator \in StrictOperators
    /\ \A k \in 1..Len(pieces[i].variables) :
         /\ pieces[i].variables[k].maxLength = 0
         /\ ~pieces[i].variables[k].composite

\* does text x contain the non-empty text y
Embeds(x, y) == \E k \in 0..Len(x) : Len(y) > 0 /\ OccursAt(x, y, k)

\* every value of the mapping is a string that embeds no glue of the template
ScalarGlueFree(data) ==
  \A n \in DOMAIN data :
    /\ data[n].t = "str"
    /\ \A g \in 1..Len(glues) : ~Embeds(data[n].s, glues[g])

IsScalar(v) == v.t \in {"str", "num"}

\* absent, null, a scalar, a list of scalars, or a map of keys to scalars
IsDocumentedValue(v) ==
  \/ v.t \in {"undefined", "null", "str", "num"}
  \/ v.t = "list" /\ \A k \in 1..Len(v.items) : IsScalar(v.items[k])
  \/ v.t = "map" /\ \A k \in 1..Len(v.items) : IsScalar(v.items[k].items[1])

(***************************************************************************)
(* C1.  Round trip: for a template of strict operators and a mapping of    *)
(* strings that embed no glue, parse(stringify(V)) succeeds and returns,   *)
(* for every variable of the template that V defines, the value V gives    *)
(* it.  (Stated for templates without modifiers.)                          *)
(***************************************************************************)
C1_RoundTrip ==
  (call.op = "parse" /\ call.back /\ PlainStrictTemplate /\ ScalarGlueFree(call.data))
    => /\ result.kind = "map"
       /\ \A n \in (DOMAIN call.data) \cap Range(TemplateVariables) :
            /\ n \in DOMAIN result.data
            /\ result.data[n] = call.data[n].s

(***************************************************************************)
(* C2.  Extraction never raises: a parse call returns a mapping or the     *)
(* failure value false, whatever the candidate string.                     *)
(***************************************************************************)
C2_ParseNeverRaises ==
  call.op = "parse" => result.kind \in {"map", "false"}

(***************************************************************************)
(* C3.  Expansion has no failure path: stringify returns a string for      *)
(* every mapping whose values are absent, null, scalars, lists of scalars  *)
(* or maps of keys to scalars, modifiers included.                         *)
(***************************************************************************)
C3_StringifyNeverThrows ==
  (call.op = "stringify" /\ \A n \in DOMAIN call.data : IsDocumentedValue(call.data[n]))
    => result.kind = "string"

(***************************************************************************)
(* C4.  Compilation throws whenever the template contains an expression    *)
(* whose operator is reserved ("=", ",", "!", "@", "|") or whose variable  *)
(* list has a token that is not a name, an optional ":" maxLength and an   *)
(* optional star; it does not throw on the empty template or on "{}",      *)
(* which stay one literal glue.  The expressions are described here by     *)
(* the grammar, not by the scanner.                                        *)
(***************************************************************************)
IsBodyChar(c) == IsAlpha(c) \/ IsDigit(c) \/ c \in Chars(<< "_", ",", ".", ":", "*" >>)
IsOperatorChar(c) ==
  c \in Chars(<< "+", "#", ".", "/", ";", "?", "&", "=", ",", "!", "@", "|" >>)

\* x[p..q] is a token of the comma-separated list x (q = p - 1: empty token)
IsTokenOf(x, p, q) ==
  /\ p = 1 \/ x[p - 1] = Ord(",")
  /\ q = Len(x) \/ x[q + 1] = Ord(",")
  /\ \A k \in p..q : x[k] # Ord(",")

\* ":" and a maxLength of 1-4 digits, the first not "0"
IsIdentifier(x) ==
  /\ Len(x) >= 1
  /\ IsAlpha(x[1]) \/ x[1] \in Chars(<< "$", "_" >>)
  /\ \A k \in 2..Len(x) : IsAlpha(x[k]) \/ IsDigit(x[k]) \/ x[k] \in Chars(<< "$", "_" >>)

IsMaxLength(x) ==
  /\ Len(x) >= 2 /\ Len(x) <= 5
  /\ x[1] = Ord(":")
  /\ x[2] # Ord("0")
  /\ \A k \in 2..Len(x) : IsDigit(x[k])

IsVariableToken(x) ==
  \E n \in 1..Len(x), m \in 0..Len(x) :
    /\ n <= m
    /\ IsIdentifier(SubSeq(x, 1, n))
    /\ m = n \/ IsMaxLength(SubSeq(x, n + 1, m))
    /\ m = Len(x) \/ (m + 1 = Len(x) /\ x[Len(x)] = Ord("*"))

HasBadToken(body) ==
  \E p \in 1..(Len(body) + 1), q \in 0..Len(body) :
    /\ q >= p - 1
    /\ IsTokenOf(body, p, q)
    /\ ~IsVariableToken(SubSeq(body, p, q))

\* the text between "{" and "}" read as operator? variable-list, the
\* operator being taken whenever a variable list is left after it
IsBadExpression(inner) ==
  /\ Len(inner) >= 1
  /\ IF IsOperatorChar(inner[1]) /\ Len(inner) >= 2
          /\ \A k \in 2..Len(inner) : IsBodyChar(inner[k])
     THEN inner[1] \in Chars(<< "=", ",", "!", "@", "|" >>)
            \/ HasBadToken(Tail(inner))
     ELSE (\A k \in 1..Len(inner) : IsBodyChar(inner[k])) /\ HasBadToken(inner)

HasBadExpression(t) ==
  \E i \in 1..Len(t), j \in 1..Len(t) :
    /\ i < j
    /\ t[i] = Ord("{")
    /\ t[j] = Ord("}")
    /\ IsBadExpression(SubSeq(t, i + 1, j - 1))

variableText(v) ==
  v.name
    \o (IF v.maxLength = 0 THEN << >> ELSE << Ord(":") >> \o toDecimal(v.maxLength))
    \o (IF v.composite THEN << Ord("*") >> ELSE << >>)

\* the source text of an expression
expressionText(piece) ==
  << Ord("{") >> \o piece.operator
    \o join([k \in 1..Len(piece.variables) |-> variableText(piece.variables[k])],
            << Ord(",") >>)
    \o << Ord("}") >>

RECURSIVE Reconstructed(_, _, _)
Reconstructed(gs, ps, i) ==
  IF i > Len(ps) THEN << >>
  ELSE expressionText(ps[i]) \o gs[i + 1] \o Reconstructed(gs, ps, i + 1)

C5_GluesReconstruct ==
  pc = "ready" =>
    /\ Len(glues) = Len(pieces) + 1
    /\ glues[1] \o Reconstructed(glues, pieces, 1) = template

\* a template of several expressions, with glue and a modifier, was compiled
C5_Witness ==
  /\ pc = "ready"
  /\ Len(pieces) >= 2
  /\ \E g \in 1..Len(glues) : Len(glues[g]) > 0
  /\ \E i \in 1..Len(pieces) : \E k \in 1..Len(pieces[i].variables) :
       pieces[i].variables[k].maxLength > 0

(***************************************************************************)
(* C6.  For a strict operator ("", ".", "/", ";", "?", "&") stringify      *)
(* leaves only ASCII letters, digits and "-", ".", "_", "~" of a scalar    *)
(* value unescaped: every character of the output is one of those, part    *)
(* of a percent escape, or a character of the template's own syntax        *)
(* (glue, prefix, separator, variable name, "=").                          *)
(***************************************************************************)
IsUnreservedChar(c) == IsAlpha(c) \/ IsDigit(c) \/ c \in Chars(<< "-", ".", "_", "~" >>)

SyntaxChars ==
  seqChars(glues) \cup pieceChars(pieces) \cup seqChars(pieceNames(pieces))
    \cup {Ord("=")}

C6_StrictEncodeMode ==
  (/\ call.op = "stringify"
   /\ result.kind = "string"
   /\ PlainStrictTemplate
   /\ \A n \in DOMAIN call.data : call.data[n].t = "str")
    => \A k \in 1..Len(result.s) :
         \/ IsUnreservedChar(result.s[k])
         \/ result.s[k] = Pct
         \/ result.s[k] \in SyntaxChars

(***************************************************************************)
(* C7.  The compiled template is never mutated and holds no per-call       *)
(* state: at every point of every sequence of calls its glues and          *)
(* expressions are those of a fresh compilation of the template text, and  *)
(* the result of the call is the result of the same call on that fresh     *)
(* compilation.                                                            *)
(***************************************************************************)
AgreesWithFresh(fresh) ==
  /\ pieces = fresh.pieces
  /\ glues = fresh.glues
  /\ call.op = "stringify" => result = stringify(call.data, fresh.pieces, fresh.glues)
  /\ call.op = "parse" => result = parseOf(impl, call.str, fresh.pieces, fresh.glues)

C7_NeverMutated ==
  pc \in {"ready", "returned"} => AgreesWithFresh(preprocessTemplate(template))

\* the second call of a sequence: parse, after stringify, on the same object
C7_Witness ==
  /\ pc = "returned"
  /\ call.op = "parse"
  /\ call.back
  /\ Len(pieces) >= 2
  /\ result.kind = "map"
  /\ DOMAIN result.data # {}

(***************************************************************************)
(* C8.  Anchors of parse: scanning the glues in order with a cursor that   *)
(* starts at 0, only a glue that is non-first, empty and the last one is   *)
(* anchored at the end of the candidate; every other glue, an empty one    *)
(* between two expressions included, is anchored at the first occurrence   *)
(* of its text at or after the cursor, and parse fails when there is none. *)
(***************************************************************************)
\* text g occurs in str at the 0-based position j
TextAt(str, g, j) ==
  /\ j + Len(g) <= Len(str)
  /\ SubSeq(str, j + 1, j + Len(g)) = g

IsFirstOccurrence(str, g, cursor, at) ==
  /\ at >= cursor
  /\ TextAt(str, g, at)
  /\ \A j \in cursor..(at - 1) : ~TextAt(str, g, j)

EndAnchoredLastOnly(gs, i) == i > 1 /\ gs[i] = << >> /\ i = Len(gs)

\* the cursor before glue i, given the anchors o of the glues before it
CursorAt(gs, o, i) == IF i = 1 THEN 0 ELSE o[i - 1] + Len(gs[i - 1])

\* o[1..n] are the anchors the rule gives the first n glues
AnchoredLastOnly(str, gs, o, n) ==
  \A i \in 1..n :
    IF EndAnchoredLastOnly(gs, i) THEN o[i] = Len(str)
    ELSE IsFirstOccurrence(str, gs[i], CursorAt(gs, o, i), o[i])

\* glue n has no anchor: it is searched for and does not occur
UnanchoredLastOnly(str, gs, o, n) ==
  /\ AnchoredLastOnly(str, gs, o, n - 1)
  /\ ~EndAnchoredLastOnly(gs, n)
  /\ \A j \in CursorAt(gs, o, n)..Len(str) : ~TextAt(str, gs[n], j)

C8_AnchorsLastOnly ==
  call.op = "parse" =>
    IF offsets.ok
    THEN /\ Len(offsets.offsets) = Len(glues)
         /\ AnchoredLastOnly(call.str, glues, offsets.offsets, Len(glues))
    ELSE \E n \in 1..Len(glues) : \E o \in [1..(n - 1) -> 0..Len(call.str)] :
           UnanchoredLastOnly(call.str, glues, o, n)

(***************************************************************************)
(* C9.  Decoding of the segments of an assignment operator (";", "?",      *)
(* "&"): a segment that does not start with the name of the variable at    *)
(* its position fails the extraction; after the name, an empty remainder   *)
(* fails it exactly when the operator's assignEmpty is true and otherwise  *)
(* stores the empty string; a non-empty remainder that does not start      *)
(* with "=" fails it, and the text after "=" is percent-decoded and        *)
(* stored under the name.  An extraction fails when it returns no mapping. *)
(* (Stated for templates of one expression.)                               *)
(***************************************************************************)
AssignmentPiece ==
  /\ Len(pieces) = 1
  /\ operatorOptions(pieces[1].operator).assignment

\* the text between the anchors of the two glues
ValueText ==
  SubSeq(call.str, offsets.offsets[1] + Len(glues[1]) + 1, offsets.offsets[2])

\* parse has reached the segments of the expression
HasSegments ==
  /\ call.op = "parse"
  /\ AssignmentPiece
  /\ offsets.ok
  /\ Len(ValueText) > 0
  /\ ValueText[1] = operatorOptions(pieces[1].operator).prefix[1]

\* x[p..q] is the k-th run of x between separators sep (q = p - 1: empty)
IsSegment(x, sep, k, p, q) ==
  /\ p = 1 \/ x[p - 1] = sep
  /\ q = Len(x) \/ x[q + 1] = sep
  /\ \A j \in p..q : x[j] # sep
  /\ Cardinality({j \in 1..(p - 1) : x[j] = sep}) = k - 1

HasName(seg, name) ==
  /\ Len(seg) >= Len(name)
  /\ SubSeq(seg, 1, Len(name)) = name

\* the text of a segment after the name and "="
AfterEquals(seg, name) == SubSeq(seg, Len(name) + 2, Len(seg))

Stored(name, text) ==
  result.kind = "map" => (name \in DOMAIN result.data /\ result.data[name] = text)

SegmentRule(seg, name, assignEmpty) ==
  /\ ~HasName(seg, name) => result.kind # "map"
  /\ seg = name =>
       IF assignEmpty THEN result.kind # "map" ELSE Stored(name, << >>)
  /\ (HasName(seg, name) /\ Len(seg) > Len(name)) =>
       IF seg[Len(name) + 1] # Ord("=") THEN result.kind # "map"
       ELSE /\ decodeURIComponent(AfterEquals(seg, name)).ok
               => Stored(name, decodeURIComponent(AfterEquals(seg, name)).s)
            /\ ~decodeURIComponent(AfterEquals(seg, name)).ok
               => result.kind # "map"

\* a segment none of the rules fails
IsAccepted(seg, name, assignEmpty) ==
  /\ HasName(seg, name)
  /\ seg = name => ~assignEmpty
  /\ Len(seg) > Len(name) =>
       /\ seg[Len(name) + 1] = Ord("=")
       /\ decodeURIComponent(AfterEquals(seg, name)).ok

SegmentsRule(rest, options, variables) ==
  /\ \A k \in 1..Len(variables), p \in 1..(Len(rest) + 1), q \in 0..Len(rest) :
       (q >= p - 1 /\ IsSegment(rest, options.seperator[1], k, p, q))
         => SegmentRule(SubSeq(rest, p, q), variables[k].name, options.assignEmpty)
  /\ (\A k \in 1..Len(variables), p \in 1..(Len(rest) + 1), q \in 0..Len(rest) :
        (q >= p - 1 /\ IsSegment(rest, options.seperator[1], k, p, q))
          => IsAccepted(SubSeq(rest, p, q), variables[k].name, options.assignEmpty))
       => result.kind = "map"

C9_AssignmentSegments ==
  HasSegments =>
    SegmentsRule(Tail(ValueText), operatorOptions(pieces[1].operator),
                 pieces[1].variables)

\* "?a=4&b": the second segment is the bare name under an operator whose
\* assignEmpty is true, and the extraction failed
C9_Witness ==
  /\ HasSegments
  /\ operatorOptions(pieces[1].operator).assignEmpty
  /\ Len(pieces[1].variables) = 2
  /\ Tail(ValueText) = Str(<< "a", "=", "4", "&", "b" >>)
  /\ result.kind = "false"

(***************************************************************************)
(* C10.  percentEncode of a string passes ASCII letters, digits and "-",   *)
(* ".", "_", "~" through and maps every other character, whatever its      *)
(* code, to "%" followed by exactly two uppercase hexadecimal digits (the  *)
(* digits of its code when the code fits two digits).                      *)
(***************************************************************************)
IsUpperHexDigit(c) == IsDigit(c) \/ (c >= Ord("A") /\ c <= Ord("F"))

RECURSIVE IsStrictEncoding(_, _)
IsStrictEncoding(out, s) ==
  IF Len(s) = 0 THEN Len(out) = 0
  ELSE IF IsUnreservedChar(Head(s))
  THEN Len(out) >= 1 /\ Head(out) = Head(s) /\ IsStrictEncoding(Tail(out), Tail(s))
  ELSE /\ Len(out) >= 3
       /\ out[1] = Pct
       /\ IsUpperHexDigit(out[2])
       /\ IsUpperHexDigit(out[3])
       /\ Head(s) <= 255 => HexVal(out[2]) * 16 + HexVal(out[3]) = Head(s)
       /\ IsStrictEncoding(SubSeq(out, 4, Len(out)), Tail(s))

C10_StrictPercentEncoding ==
  call.op = "percentEncode" => IsStrictEncoding(result.s, call.str)

(***************************************************************************)
(* C11.  Extraction is not anchored at the end of the candidate: on a      *)
(* template none of whose glues after the first is empty, when parse(s)    *)
(* returns a mapping M then parse(s + x) returns the same mapping M for    *)
(* every text x.  Stated on the call parse(t): every prefix s of t that    *)
(* parses to a mapping parses to the mapping parse(t) returned.            *)
(***************************************************************************)
NoLaterEmptyGlue == \A g \in 2..Len(glues) : Len(glues[g]) > 0

\* r is the outcome of parse on a prefix of the candidate of the call
PrefixAgrees(r) == r.kind = "map" => result = r

C11_SuffixIgnored ==
  (call.op = "parse" /\ NoLaterEmptyGlue) =>
    \A n \in 0..Len(call.str) :
      PrefixAgrees(parseOf(impl, SubSeq(call.str, 1, n), pieces, glues))

\* a candidate with a shorter prefix that already parses to a mapping with
\* a value in it
C11_Witness ==
  /\ call.op = "parse"
  /\ NoLaterEmptyGlue
  /\ Len(pieces) >= 1
  /\ result.kind = "map"
  /\ DOMAIN result.data # {}
  /\ \E n \in 0..(Len(call.str) - 1) :
       parseOf(impl, SubSeq(call.str, 1, n), pieces, glues).kind = "map"

====
